---- MODULE Spec2Model ----
(***************************************************************************)
(* Model of src/main.py: the search / enrich / summarise pipeline of       *)
(* search_patents and fetch_full_patent_text.                              *)
(*                                                                         *)
(* Text is a sequence of string fragments, so that str.strip() and the     *)
(* f-string formatting of a status code are computed and not assumed.      *)
(* A dict is a function; a missing key is a key outside its DOMAIN.        *)
(* The two remote parties (the search service and the patent pages) are    *)
(* the variables api and pages: what each will answer when asked.          *)
(***************************************************************************)
EXTENDS Integers, Sequences, FiniteSets, TLC

VARIABLES SERPAPI_KEY, query, top_n, api, pages,
          pc, response, results, patents, assignees, inventors, calls, ret

vars == <<SERPAPI_KEY, query, top_n, api, pages,
          pc, response, results, patents, assignees, inventors, calls, ret>>

\* ------------------------------------------------------------------ bounds
MaxResults == 2
MaxPageResults == 2
MaxAggResults == 5

\* --------------------------------------------------------------- constants
HTTP_OK == 200
TOP_K == 3
UI_MIN_TOP_N == 11
UI_MAX_TOP_N == 50

\* ----------------------------------------------------------------- helpers
Min(S) == CHOOSE x \in S : \A y \in S : x <= y
Max(S) == CHOOSE x \in S : \A y \in S : x >= y

\* dict.get(key, default)
Get(d, k, default) == IF k \in DOMAIN d THEN d[k] ELSE default

\* seq[:n] of Python
PySliceTo(s, n) ==
  IF n >= 0 THEN SubSeq(s, 1, IF n < Len(s) THEN n ELSE Len(s))
  ELSE SubSeq(s, 1, IF Len(s) + n > 0 THEN Len(s) + n ELSE 0)

IsSpace(c) == c \in {" ", "\t", "\n"}

\* str.strip()
Strip(s) ==
  LET keep == {j \in 1..Len(s) : ~IsSpace(s[j])}
  IN IF keep = {} THEN <<>> ELSE SubSeq(s, Min(keep), Max(keep))

Digit(d) == <<"0", "1", "2", "3", "4", "5", "6", "7", "8", "9">>[d + 1]

\* str(n) of a non-negative integer, as the f-string formats it
RECURSIVE Str(_)
Str(n) == IF n < 10 THEN <<Digit(n)>> ELSE Str(n \div 10) \o <<Digit(n % 10)>>

NotReturned == [pending |-> TRUE]
NoResponse == [kind |-> "none"]
None == "None"

KeyErrorMessage ==
  <<"SerpAPI API key not found. Please set it in your .env file.">>
StatusErrorPrefix == <<"Error from SerpAPI: ">>
NoTitleFound == <<"No title found">>
NoSummaryFound == <<"No summary found">>
Unknown == "Unknown"

\* `not SERPAPI_KEY`
KeyMissingLax(key) == key = None
KeyMissing(key) == key = None \/ key = ""

\* `response.status_code != 200`
StatusRejectedLax(status) == status >= 400
StatusRejected(status) == status # HTTP_OK

StatusErrorMessage(status) == StatusErrorPrefix \o Str(status)

\* ------------------------------------------------- fetch_full_patent_text
\* requests.get(url, timeout=10) raises for an url without scheme, a
\* connection error or a timeout
RequestRaises(url, page) == url = "" \/ page.kind = "raise"

\* soup.find("meta", {"name": name}): the first such tag, or None
Find(page, name) ==
  LET hits == {j \in 1..Len(page.metas) : page.metas[j].name = name}
  IN IF hits = {} THEN [found |-> FALSE]
     ELSE [found |-> TRUE, attrs |-> page.metas[Min(hits)]]

\* tag["content"] raises KeyError when the attribute is missing
TagRaises(tag) == tag.found /\ "content" \notin DOMAIN tag.attrs

fetch_full_patent_textPartial(url, short_title, short_summary, page) ==
  IF RequestRaises(url, page) THEN <<short_title, short_summary>>
  ELSE
    LET title_tag == Find(page, "citation_title")
        abstract_tag == Find(page, "description")
        title == IF title_tag.found /\ ~TagRaises(title_tag)
                 THEN Strip(title_tag.attrs.content) ELSE short_title
        summary == IF abstract_tag.found /\ ~TagRaises(abstract_tag)
                   THEN Strip(abstract_tag.attrs.content) ELSE short_summary
    IN <<title, summary>>

fetch_full_patent_textBoth(url, short_title, short_summary, page) ==
  IF RequestRaises(url, page) THEN <<short_title, short_summary>>
  ELSE
    LET title_tag == Find(page, "citation_title")
        abstract_tag == Find(page, "description")
    IN IF TagRaises(title_tag) \/ TagRaises(abstract_tag)
       THEN <<short_title, short_summary>>
       ELSE IF title_tag.found /\ abstract_tag.found
       THEN <<Strip(title_tag.attrs.content), Strip(abstract_tag.attrs.content)>>
       ELSE <<short_title, short_summary>>

fetch_full_patent_text(url, short_title, short_summary, page) ==
  IF RequestRaises(url, page) THEN <<short_title, short_summary>>
  ELSE
    LET title_tag == Find(page, "citation_title")
        abstract_tag == Find(page, "description")
    IN IF TagRaises(title_tag) \/ TagRaises(abstract_tag)
       THEN <<short_title, short_summary>>
       ELSE <<IF title_tag.found THEN Strip(title_tag.attrs.content)
              ELSE short_title,
              IF abstract_tag.found THEN Strip(abstract_tag.attrs.content)
              ELSE short_summary>>

\* the requests.get calls fetch_full_patent_text issues for one result
FetchCallsGuarded(link) ==
  IF link = "" THEN <<>> ELSE <<[kind |-> "fetch", url |-> link]>>
FetchCalls(link) == <<[kind |-> "fetch", url |-> link]>>

\* ------------------------------------------------------ collections.Counter
\* Counter(names): (name, count) pairs in order of first insertion
RECURSIVE Counter(_)
Counter(names) ==
  IF names = <<>> THEN <<>>
  ELSE LET front == Counter(SubSeq(names, 1, Len(names) - 1))
           last == names[Len(names)]
           at == {j \in 1..Len(front) : front[j][1] = last}
       IN IF at = {} THEN Append(front, <<last, 1>>)
          ELSE [j \in 1..Len(front) |->
                  IF j \in at THEN <<front[j][1], front[j][2] + 1>>
                  ELSE front[j]]

\* insert one pair into a list sorted by descending count, after its equals
InsertByCount(sorted, pair) ==
  LET before == {j \in 1..Len(sorted) : sorted[j][2] >= pair[2]}
      k == IF before = {} THEN 0 ELSE Max(before)
  IN SubSeq(sorted, 1, k) \o <<pair>> \o SubSeq(sorted, k + 1, Len(sorted))

\* sorted(items, key=count, reverse=True): stable
RECURSIVE SortedByCount(_)
SortedByCount(items) ==
  IF items = <<>> THEN <<>>
  ELSE InsertByCount(SortedByCount(SubSeq(items, 1, Len(items) - 1)),
                     items[Len(items)])

most_commonUnsorted(counter, n) == PySliceTo(counter, n)

\* Counter.most_common(n)
most_common(counter, n) == PySliceTo(SortedByCount(counter), n)

\* ----------------------------------------------------------- search_patents
\* results[:top_n], the results the loop retains
RetainedAll(rs, n) == rs
Retained(rs, n) == PySliceTo(rs, n)

\* lines 54-68: the patent built from one API result and its page
BuildPatent(result, page) ==
  LET link == Get(result, "patent_link", "")
      short_title == Get(result, "title", NoTitleFound)
      short_summary == Get(result, "snippet", NoSummaryFound)
      full == fetch_full_patent_text(link, short_title, short_summary, page)
  IN [title |-> full[1],
      summary |-> full[2],
      publication_date |-> Get(result, "publication_date", Unknown),
      inventor |-> Get(result, "inventor", Unknown),
      assignee |-> Get(result, "assignee", Unknown),
      patent_link |-> link,
      pdf |-> Get(result, "pdf", "")]

\* lines 70-73: which names are tallied
TalliedAlways(name) == TRUE
Tallied(name) == name # Unknown

\* line 79
TotalOfResponse(ps, rs) == Len(rs)
Total(ps, rs) == Len(ps)

\* ------------------------------------------------------------- the inputs
Fields == {"patent_link", "title", "snippet", "publication_date",
           "inventor", "assignee", "pdf"}

\* a dict from, for each key, the set of its zero or one values
MkDict(opt) ==
  [k \in {f \in DOMAIN opt : opt[f] # {}} |-> CHOOSE v \in opt[k] : TRUE]

EntryA ==
  [patent_link |-> "https://patents.google.com/patent/US1",
   title |-> <<"A">>, snippet |-> <<"short a">>,
   publication_date |-> "2020-01-01", inventor |-> "I1",
   assignee |-> "X", pdf |-> "https://patentimages/US1.pdf"]

EntryB ==
  [patent_link |-> "https://patents.google.com/patent/US2",
   title |-> <<"B">>, snippet |-> <<"short b">>,
   publication_date |-> "2021-02-02", inventor |-> "I2",
   assignee |-> "X", pdf |-> "https://patentimages/US2.pdf"]

Without(d, k) == [f \in DOMAIN d \ {k} |-> d[f]]

\* EntryA and EntryB, EntryA with one key dropped, with an empty link, with
\* the sentinel written out, and the entry without any key
VariantEntries ==
  {EntryA, EntryB, Without(EntryA, "title"), Without(EntryA, "snippet")}
  \cup {Without(EntryA, k) : k \in Fields}
  \cup {[EntryA EXCEPT !.patent_link = ""],
        [EntryA EXCEPT !.inventor = Unknown],
        [EntryB EXCEPT !.assignee = Unknown],
        Without(EntryB, "assignee"),
        [f \in {} |-> ""]}

PageEntries ==
  {EntryA, [EntryA EXCEPT !.patent_link = ""],
   Without(EntryB, "patent_link"),
   Without(Without(EntryB, "title"), "snippet")}

Names == {"X", "Y", "Z", "W"}
NameOptions == {{}} \cup {{Unknown}} \cup {{n} : n \in Names}

\* entries that carry only the two tallied keys
AssigneeEntries == {MkDict([assignee |-> a, inventor |-> {"I1"}]) : a \in NameOptions}
InventorEntries == {MkDict([assignee |-> {"X"}, inventor |-> n]) : n \in NameOptions}

SeqsUpTo(S, n) == UNION {[1..m -> S] : m \in 0..n}

RaisePage == [kind |-> "raise"]
TitleMeta(text) == [name |-> "citation_title", content |-> text]
DescriptionMeta(text) == [name |-> "description", content |-> text]
FullPage ==
  [kind |-> "html",
   metas |-> <<TitleMeta(<<" ", "Full title", "\n">>),
               DescriptionMeta(<<"Full abstract", " ">>)>>]

\* the meta tags a page may carry under one name: none, one without a
\* content attribute, one with content
MetaOptions(name, text) ==
  {<<>>, <<[name |-> name]>>, <<[name |-> name, content |-> text]>>}

HtmlPages ==
  {[kind |-> "html", metas |-> t \o d] :
     t \in MetaOptions("citation_title", <<" ", "Full title", "\n">>),
     d \in MetaOptions("description", <<"Full abstract", " ">>)}
  \cup {[kind |-> "html",
         metas |-> <<TitleMeta(<<"First">>), TitleMeta(<<"Second">>)>>]}

Response(status, body) == [kind |-> "response", status |-> status, body |-> body]
Object(data) == [kind |-> "object", data |-> data]

BadStatuses == {204, 401, 429, 500}

\* answers of the search service that carry no result list
EdgeAnswers ==
  {[kind |-> "raise"]}
  \cup {Response(s, Object([error |-> "Invalid API key."])) : s \in BadStatuses}
  \cup {Response(HTTP_OK, [kind |-> "notjson"]),
        Response(HTTP_OK, [kind |-> "array"]),
        Response(HTTP_OK, Object([search_metadata |-> "Success"]))}

ListAnswers(lists) ==
  {Response(HTTP_OK, Object([organic_results |-> l])) : l \in lists}

Keys == {None, "", "secret"}
Queries == {"AI shoes"}

NumRetained(answer, n) ==
  IF answer.kind = "response" /\ answer.body.kind = "object"
     /\ "organic_results" \in DOMAIN answer.body.data
  THEN LET l == Len(answer.body.data.organic_results)
       IN IF n < l THEN n ELSE l
  ELSE 0

\* the state at the call of search_patents, for a family of inputs
InitWith(answers, topNs, pageSet) ==
  /\ SERPAPI_KEY \in Keys
  /\ query \in Queries
  /\ top_n \in topNs
  /\ api \in IF SERPAPI_KEY = "secret" THEN EdgeAnswers \cup answers
            ELSE EdgeAnswers
  /\ pages \in [1..NumRetained(api, top_n) -> pageSet]
  /\ pc = "credential"
  /\ response = NoResponse
  /\ results = <<>>
  /\ patents = <<>>
  /\ assignees = <<>>
  /\ inventors = <<>>
  /\ calls = <<>>
  /\ ret = NotReturned

Init ==
  InitWith(ListAnswers(SeqsUpTo(VariantEntries, MaxResults)),
           {1, 2, UI_MIN_TOP_N}, {RaisePage, FullPage})

InitEnrich ==
  InitWith(ListAnswers(SeqsUpTo(PageEntries, MaxPageResults)),
           {UI_MIN_TOP_N}, {RaisePage} \cup HtmlPages)

InitAgg ==
  InitWith(ListAnswers(SeqsUpTo(AssigneeEntries, MaxAggResults)
                       \cup SeqsUpTo(InventorEntries, MaxAggResults)),
           {UI_MAX_TOP_N}, {RaisePage})

\* ------------------------------------------------------------ the actions
PageAt(j) == IF j \in DOMAIN pages THEN pages[j] ELSE RaisePage

SearchCall ==
  [kind |-> "search", url |-> "https://serpapi.com/search",
   params |-> [engine |-> "google_patents", q |-> query,
               api_key |-> SERPAPI_KEY, num |-> top_n,
               output |-> "json", no_cache |-> "true"]]

\* lines 29-30
CheckCredential ==
  /\ pc = "credential"
  /\ IF KeyMissing(SERPAPI_KEY)
     THEN /\ ret' = [error |-> KeyErrorMessage]
          /\ pc' = "returned"
     ELSE /\ pc' = "request"
          /\ UNCHANGED ret
  /\ UNCHANGED <<SERPAPI_KEY, query, top_n, api, pages, response, results,
                 patents, assignees, inventors, calls>>

\* line 42: requests.get either raises or yields the response
SendSearchRequest ==
  /\ pc = "request"
  /\ calls' = Append(calls, SearchCall)
  /\ IF api.kind = "raise"
     THEN /\ pc' = "raised"
          /\ UNCHANGED response
     ELSE /\ response' = api
          /\ pc' = "status"
  /\ UNCHANGED <<SERPAPI_KEY, query, top_n, api, pages, results, patents,
                 assignees, inventors, ret>>

\* lines 43-44
CheckStatus ==
  /\ pc = "status"
  /\ IF StatusRejected(response.status)
     THEN /\ ret' = [error |-> StatusErrorMessage(response.status)]
          /\ pc' = "returned"
     ELSE /\ pc' = "parse"
          /\ UNCHANGED ret
  /\ UNCHANGED <<SERPAPI_KEY, query, top_n, api, pages, response, results,
                 patents, assignees, inventors, calls>>

\* lines 46-51: response.json() raises on a body that is not JSON, and
\* data.get raises on JSON that is not an object
ParseResponse ==
  /\ pc = "parse"
  /\ IF response.body.kind # "object"
     THEN /\ pc' = "raised"
          /\ UNCHANGED results
     ELSE /\ results' = Get(response.body.data, "organic_results", <<>>)
          /\ pc' = "loop"
  /\ patents' = <<>>
  /\ assignees' = <<>>
  /\ inventors' = <<>>
  /\ UNCHANGED <<SERPAPI_KEY, query, top_n, api, pages, response, calls, ret>>

\* lines 53-75: one iteration of the loop over results[:top_n]
EnrichResult ==
  /\ pc = "loop"
  /\ Len(patents) < Len(Retained(results, top_n))
  /\ LET j == Len(patents) + 1
         result == Retained(results, top_n)[j]
         patent == BuildPatent(result, PageAt(j))
     IN /\ calls' = calls \o FetchCalls(patent.patent_link)
        /\ assignees' = IF Tallied(patent.assignee)
                        THEN Append(assignees, patent.assignee)
                        ELSE assignees
        /\ inventors' = IF Tallied(patent.inventor)
                        THEN Append(inventors, patent.inventor)
                        ELSE inventors
        /\ patents' = Append(patents, patent)
  /\ UNCHANGED <<SERPAPI_KEY, query, top_n, api, pages, pc, response,
                 results, ret>>

\* lines 77-84
Summarize ==
  /\ pc = "loop"
  /\ Len(patents) >= Len(Retained(results, top_n))
  /\ ret' = [summary |->
               [query |-> query,
                total |-> Total(patents, results),
                top_assignees |-> most_common(Counter(assignees), TOP_K),
                top_inventors |-> most_common(Counter(inventors), TOP_K)],
             results |-> patents]
  /\ pc' = "returned"
  /\ UNCHANGED <<SERPAPI_KEY, query, top_n, api, pages, response, results,
                 patents, assignees, inventors, calls>>

Next ==
  \/ CheckCredential
  \/ SendSearchRequest
  \/ CheckStatus
  \/ ParseResponse
  \/ EnrichResult
  \/ Summarize

Spec == Init /\ [][Next]_vars
SpecEnrich == InitEnrich /\ [][Next]_vars
SpecAgg == InitAgg /\ [][Next]_vars


\* ------------------------------------------------------------- properties
IsReport(r) == "summary" \in DOMAIN r
IsError(r) == "error" \in DOMAIN r
ReturnedReport == pc = "returned" /\ IsReport(ret)

\* the service answered 200 with an object holding a result list
AnsweredList ==
  /\ api.kind = "response"
  /\ api.status = 200
  /\ api.body.kind = "object"
  /\ "organic_results" \in DOMAIN api.body.data
ApiList == IF AnsweredList THEN api.body.data.organic_results ELSE <<>>
ExpectedLength == IF top_n < Len(ApiList) THEN top_n ELSE Len(ApiList)

ShortTitle(j) == IF "title" \in DOMAIN ApiList[j] THEN ApiList[j].title
                 ELSE <<"No title found">>
ShortSummary(j) == IF "snippet" \in DOMAIN ApiList[j] THEN ApiList[j].snippet
                   ELSE <<"No summary found">>
LinkOf(j) == IF "patent_link" \in DOMAIN ApiList[j]
             THEN ApiList[j].patent_link ELSE ""

\* the first meta tag of that name in the page of result j, if any
MetaHits(j, name) ==
  {k \in 1..Len(pages[j].metas) : pages[j].metas[k].name = name}
MetaPresent(j, name) == MetaHits(j, name) # {}
FirstMeta(j, name) == pages[j].metas[Min(MetaHits(j, name))]
MetaUnreadable(j, name) ==
  MetaPresent(j, name) /\ "content" \notin DOMAIN FirstMeta(j, name)

FetchFailed(j) ==
  \/ LinkOf(j) = ""
  \/ pages[j].kind = "raise"
  \/ MetaUnreadable(j, "citation_title")
  \/ MetaUnreadable(j, "description")

\* C1: in every returned Report, summary.total equals the length of the
\* results sequence of that Report.
C1_TotalIsLength ==
  ReturnedReport => ret.summary.total = Len(ret.results)

C1_Witness ==
  /\ ReturnedReport
  /\ Len(ret.results) = 2
  /\ pages[1].kind = "raise"
  /\ pages[2].kind = "html"
  /\ ret.results[2].title = <<"Full title">>
  /\ ret.summary.total = 2

\* C2: in every returned Report, no pair of top_assignees or top_inventors
\* names the sentinel "Unknown", also when every result lacks the field.
C2_NoUnknownInTop ==
  ReturnedReport =>
    /\ \A j \in 1..Len(ret.summary.top_assignees) :
         ret.summary.top_assignees[j][1] # "Unknown"
    /\ \A j \in 1..Len(ret.summary.top_inventors) :
         ret.summary.top_inventors[j][1] # "Unknown"

C2_Witness ==
  /\ ReturnedReport
  /\ Len(ret.results) = 3
  /\ \A j \in 1..3 : "assignee" \notin DOMAIN ApiList[j]
  /\ ret.summary.top_assignees = <<>>
  /\ ret.summary.top_inventors = <<<<"I1", 3>>>>

\* the reference computation of a top list over the results of a Report
NamesIn(rs, field) == {rs[j][field] : j \in 1..Len(rs)} \ {"Unknown"}
CountIn(rs, field, name) ==
  Cardinality({j \in 1..Len(rs) : rs[j][field] = name})
FirstSeen(rs, field, name) == Min({j \in 1..Len(rs) : rs[j][field] = name})
Precedes(rs, field, a, b) ==
  \/ CountIn(rs, field, a) > CountIn(rs, field, b)
  \/ /\ CountIn(rs, field, a) = CountIn(rs, field, b)
     /\ FirstSeen(rs, field, a) < FirstSeen(rs, field, b)
Rank(rs, field, a) ==
  1 + Cardinality({b \in NamesIn(rs, field) : Precedes(rs, field, b, a)})
IsReferenceTop(top, rs, field) ==
  /\ Len(top) = IF Cardinality(NamesIn(rs, field)) < 3
                THEN Cardinality(NamesIn(rs, field)) ELSE 3
  /\ \A j \in 1..Len(top) :
       /\ top[j][1] \in NamesIn(rs, field)
       /\ Rank(rs, field, top[j][1]) = j
       /\ top[j][2] = CountIn(rs, field, top[j][1])

\* C3: top_assignees and top_inventors are the distinct non-"Unknown"
\* names with their exact counts, by descending count, equal counts by
\* first appearance, cut to the first 3.
C3_TopIsReference ==
  ReturnedReport =>
    /\ IsReferenceTop(ret.summary.top_assignees, ret.results, "assignee")
    /\ IsReferenceTop(ret.summary.top_inventors, ret.results, "inventor")

C3_Witness ==
  /\ ReturnedReport
  /\ Len(ret.results) = 5
  /\ Cardinality(NamesIn(ret.results, "assignee")) = 4
  /\ ret.results[1].assignee = "X"
  /\ ret.results[2].assignee = "Y"
  /\ ret.results[3].assignee = "Z"
  /\ ret.summary.top_assignees = <<<<"W", 2>>, <<"X", 1>>, <<"Y", 1>>>>

\* C4: with an absent or empty credential the run returns the
\* configuration error and no network call is ever issued.
C4_NoKeyNoCall ==
  (SERPAPI_KEY = "None" \/ SERPAPI_KEY = "") =>
    /\ calls = <<>>
    /\ pc \in {"credential", "returned"}
    /\ pc = "returned" =>
         ret = [error |->
                 <<"SerpAPI API key not found. Please set it in your .env file.">>]

C4_Witness ==
  /\ pc = "returned"
  /\ SERPAPI_KEY = ""
  /\ IsError(ret)
  /\ calls = <<>>

DigitValue(c) == CHOOSE d \in 0..9 : Digit(d) = c
RECURSIVE ParseInt(_)
ParseInt(s) ==
  IF s = <<>> THEN 0
  ELSE 10 * ParseInt(SubSeq(s, 1, Len(s) - 1)) + DigitValue(s[Len(s)])

RejectedAnswer ==
  SERPAPI_KEY = "secret" /\ api.kind = "response" /\ api.status # 200

\* C5: on a status other than 200 the run returns an error carrying the
\* status code, with neither summary nor results; no fetch is issued and
\* the search request is sent once.
C5_RejectedStatus ==
  RejectedAnswer =>
    /\ pc \in {"credential", "request", "status", "returned"}
    /\ \A j \in 1..Len(calls) : calls[j].kind = "search"
    /\ Len(calls) <= 1
    /\ pc = "returned" =>
         /\ DOMAIN ret = {"error"}
         /\ Len(calls) = 1
         /\ ret.error[1] = "Error from SerpAPI: "
         /\ ParseInt(SubSeq(ret.error, 2, Len(ret.error))) = api.status

C5_Witness ==
  /\ pc = "returned"
  /\ RejectedAnswer
  /\ api.status = 204
  /\ ret.error = <<"Error from SerpAPI: ", "2", "0", "4">>

\* C6: search_patents always ends by returning a Report or an error value;
\* it never ends by propagating an exception.
C6_NeverRaises == pc # "raised"

\* C7: a failed enrichment fetch (no link, request error, unreadable meta
\* tag) leaves exactly the short title and summary, and the pipeline goes
\* on: the result is reported and the later results are still processed.
C7_FailedFetchFallsBack ==
  /\ \A j \in 1..Len(patents) :
       FetchFailed(j) => /\ patents[j].title = ShortTitle(j)
                         /\ patents[j].summary = ShortSummary(j)
  /\ pc = "loop" => Len(patents) <= ExpectedLength
  /\ (pc = "returned" /\ AnsweredList /\ SERPAPI_KEY = "secret") =>
       /\ IsReport(ret)
       /\ Len(ret.results) = ExpectedLength
       /\ \A j \in 1..Len(ret.results) :
            FetchFailed(j) => /\ ret.results[j].title = ShortTitle(j)
                              /\ ret.results[j].summary = ShortSummary(j)

C7_Witness ==
  /\ ReturnedReport
  /\ Len(ret.results) = 2
  /\ LinkOf(1) # ""
  /\ pages[1].kind = "html"
  /\ MetaPresent(1, "citation_title")
  /\ ~MetaUnreadable(1, "citation_title")
  /\ MetaUnreadable(1, "description")
  /\ ret.results[1].title = <<"A">>
  /\ ~FetchFailed(2)
  /\ ret.results[2].title = <<"Full title">>

\* C8: after a fetch that succeeded, a field whose meta tag is in the page
\* is overwritten with the tag's stripped content, and a field whose tag is
\* absent keeps its short value, each field on its own.
C8_PresentFieldsOverwrite ==
  \A j \in 1..Len(patents) :
    ~FetchFailed(j) =>
      /\ patents[j].title =
           IF MetaPresent(j, "citation_title")
           THEN Strip(FirstMeta(j, "citation_title").content)
           ELSE ShortTitle(j)
      /\ patents[j].summary =
           IF MetaPresent(j, "description")
           THEN Strip(FirstMeta(j, "description").content)
           ELSE ShortSummary(j)

C8_Witness ==
  /\ ReturnedReport
  /\ Len(ret.results) = 2
  /\ ~FetchFailed(1)
  /\ MetaPresent(1, "citation_title")
  /\ ~MetaPresent(1, "description")
  /\ ret.results[1].title = <<"Full title">>
  /\ ret.results[1].summary = ShortSummary(1)
  /\ ~FetchFailed(2)
  /\ ~MetaPresent(2, "citation_title")
  /\ MetaPresent(2, "description")
  /\ ret.results[2].title = <<"No title found">>
  /\ ret.results[2].summary = <<"Full abstract">>

CarriesEntry(patent, entry) ==
  /\ patent.inventor = IF "inventor" \in DOMAIN entry
                       THEN entry.inventor ELSE "Unknown"
  /\ patent.assignee = IF "assignee" \in DOMAIN entry
                       THEN entry.assignee ELSE "Unknown"
  /\ patent.publication_date = IF "publication_date" \in DOMAIN entry
                               THEN entry.publication_date ELSE "Unknown"
  /\ patent.patent_link = IF "patent_link" \in DOMAIN entry
                          THEN entry.patent_link ELSE ""
  /\ patent.pdf = IF "pdf" \in DOMAIN entry THEN entry.pdf ELSE ""

\* C9: the Report holds min(count, number of API entries) results, the i-th
\* carrying inventor, assignee, publication date, link and pdf of the i-th
\* API entry with the defaults for missing keys.
C9_ResultsFollowResponse ==
  /\ Len(patents) <= Len(ApiList)
  /\ \A j \in 1..Len(patents) : CarriesEntry(patents[j], ApiList[j])
  /\ ReturnedReport =>
       /\ Len(ret.results) = ExpectedLength
       /\ \A j \in 1..Len(ret.results) :
            CarriesEntry(ret.results[j], ApiList[j])

C9_Witness ==
  /\ ReturnedReport
  /\ Len(ApiList) = 2
  /\ top_n = 1
  /\ Len(ret.results) = 1
  /\ "pdf" \notin DOMAIN ApiList[1]
  /\ ret.results[1].pdf = ""
  /\ ret.results[1].title = <<"Full title">>

FetchCallOf(j) == [kind |-> "fetch", url |-> LinkOf(j)]

\* C10: past the credential check one search request is sent; on a 200
\* answer one fetch per retained result follows it, in result order, and
\* the summary is computed after the last of them.
C10_CallOrder ==
  /\ pc \in {"credential", "request"} => calls = <<>>
  /\ pc \notin {"credential", "request"} /\ SERPAPI_KEY = "secret" =>
       /\ Len(calls) = 1 + Len(patents)
       /\ calls[1].kind = "search"
       /\ \A j \in 1..Len(patents) : calls[j + 1] = FetchCallOf(j)
  /\ ReturnedReport =>
       /\ Len(patents) = ExpectedLength
       /\ Len(calls) = 1 + ExpectedLength

C10_Witness ==
  /\ ReturnedReport
  /\ Len(ret.results) = 2
  /\ LinkOf(1) = ""
  /\ LinkOf(2) # ""
  /\ calls = <<SearchCall, FetchCallOf(1), FetchCallOf(2)>>

====
